---------------------------- MODULE Spec2Model ----------------------------
(***************************************************************************)
(* A model of window_utils.py: the two window enumerations, the title      *)
(* lookup they share, and the owning-process-name lookup.  The Win32       *)
(* window registry is the environment; the module itself keeps no state,   *)
(* so the variables are the registry, the inputs of the last call and the  *)
(* values the calls returned.                                              *)
(*                                                                         *)
(*   Spec      the registry is fixed while a call runs (the module is      *)
(*             synchronous); Init draws it from every registry within the  *)
(*             bounds and the actions apply the enumerations to it.        *)
(*   SpecRace  the title lookup and the enumeration callbacks run one      *)
(*             native call at a time while the OS destroys windows and     *)
(*             changes titles in between.                                  *)
(*   SpecProc  get_process_name_from_hwnd with every outcome of the        *)
(*             native calls it makes.                                      *)
(***************************************************************************)
EXTENDS Integers, Sequences, FiniteSets, TLC

VARIABLES
    win,          \* the OS window registry: hwnd -> window record
    returned,     \* which enumerations have returned (Spec)
    allWindows,   \* the dict get_all_windows returned
    userWindows,  \* the dict get_all_user_windows returned
    kind,         \* SpecRace: the call in progress
    pc,           \* SpecRace: the native call the running code makes next
    todo,         \* SpecRace: hwnds EnumWindows has still to pass to the callback
    hwnd,         \* SpecRace: the callback's / get_title_from_hwnd's argument
    length,       \* SpecRace: get_title_from_hwnd's local `length`
    buff,         \* SpecRace: get_title_from_hwnd's local `buff` (its .value)
    windows,      \* SpecRace: the dict the callback fills
    held,         \* SpecRace: titles hwnd held while get_title_from_hwnd ran
    gone,         \* SpecRace: hwnds missing at a native call of get_title_from_hwnd
    untouched,    \* SpecRace: hwnds the OS has not changed since the call began
    osSteps,      \* SpecRace: number of OS changes so far
    procIn,       \* SpecProc: the inputs of the last get_process_name_from_hwnd
    procName,     \* SpecProc: the text it returned
    opened,       \* SpecProc: process handles OpenProcess has handed out
    closed,       \* SpecProc: CloseHandle calls on a handle
    closedNull,   \* SpecProc: CloseHandle calls on a null handle
    calls         \* SpecProc: number of get_process_name_from_hwnd calls

enumVars == <<returned, allWindows, userWindows>>
raceVars == <<kind, pc, todo, hwnd, length, buff, windows, held, gone, untouched, osSteps>>
procVars == <<procIn, procName, opened, closed, closedNull, calls>>
vars == <<win, enumVars, raceVars, procVars>>

---------------------------------------------------------------------------
(* Bounds *)

NumWindows == 2
MaxTitleLen == 2
MaxPathLen == 3
MaxOsSteps == 2
MaxCalls == 3

(* Program constants *)

WS_EX_TOOLWINDOW == 128
WS_EX_TOPMOST == 8
NULL == 0

---------------------------------------------------------------------------
(* Values *)

Min(a, b) == IF a <= b THEN a ELSE b

Take(s, n) == SubSeq(s, 1, Min(n, Len(s)))

Hwnds == 1..NumWindows

Names == {<<"N", "o", "t", "e", "p", "a", "d">>, <<"D", "i", "a", "l", "o", "g">>}

\* Title texts: the prefixes of two names, the empty title included.
Titles == {Take(n, k) : n \in Names, k \in 0..MaxTitleLen}

\* Extended styles: topmost, and topmost tool window.
ExStyles == {WS_EX_TOPMOST, WS_EX_TOPMOST + WS_EX_TOOLWINDOW}

\* The code only tests the owner for null: one possible owner per window.
Owners(h) == {NULL, (h % NumWindows) + 1}

NoWindow == [exists |-> FALSE, visible |-> FALSE, exstyle |-> 0, owner |-> NULL, title |-> <<>>]

WindowRecords(h) ==
    {NoWindow} \cup
    [exists : {TRUE}, visible : BOOLEAN, exstyle : ExStyles, owner : Owners(h), title : Titles]

Registries == {r \in [Hwnds -> UNION {WindowRecords(h) : h \in Hwnds}] :
                   \A h \in Hwnds : r[h] \in WindowRecords(h)}

EmptyDict == [h \in {} |-> <<>>]

\* windows[hwnd] = title
DictSet(d, k, v) == [h \in DOMAIN d \cup {k} |-> IF h = k THEN v ELSE d[h]]

---------------------------------------------------------------------------
(* The native calls, as functions of the registry *)

RECURSIVE BitAnd(_, _)
BitAnd(a, b) ==
    IF a = 0 \/ b = 0 THEN 0
    ELSE (IF a % 2 = 1 /\ b % 2 = 1 THEN 1 ELSE 0) + 2 * BitAnd(a \div 2, b \div 2)

IsWindowVisible(reg, h) == reg[h].exists /\ reg[h].visible

\* GetWindowLongPtrW(hwnd, GWL_EXSTYLE): 0 for a window that does not exist
GetWindowLongPtrW(reg, h) == IF reg[h].exists THEN reg[h].exstyle ELSE 0

\* GetWindow(hwnd, GW_OWNER)
GetWindow(reg, h) == IF reg[h].exists THEN reg[h].owner ELSE NULL

GetWindowTextLengthW(reg, h) == IF reg[h].exists THEN Len(reg[h].title) ELSE 0

\* GetWindowTextW(hwnd, buff, nMaxCount) into a zeroed buffer: at most
\* nMaxCount - 1 characters are copied; nothing is for a missing window.
GetWindowTextW(reg, h, nMaxCount) ==
    IF reg[h].exists /\ nMaxCount >= 1 THEN Take(reg[h].title, nMaxCount - 1) ELSE <<>>

\* EnumWindows passes the top-level windows that exist, here in hwnd order.
TopLevelWindows(reg) == SelectSeq([i \in 1..NumWindows |-> i], LAMBDA h : reg[h].exists)

---------------------------------------------------------------------------
(* The module's functions on a fixed registry *)

get_title_from_hwnd_short(reg, h) ==
    LET len == GetWindowTextLengthW(reg, h)
    IN  GetWindowTextW(reg, h, len)

get_title_from_hwnd(reg, h) ==
    LET len == GetWindowTextLengthW(reg, h)
    IN  GetWindowTextW(reg, h, len + 1)

\* The callbacks return the dict and the value handed back to EnumWindows.
all_callback_untitled(reg, d, h) ==
    IF IsWindowVisible(reg, h)
    THEN [windows |-> DictSet(d, h, get_title_from_hwnd(reg, h)), ret |-> TRUE]
    ELSE [windows |-> d, ret |-> TRUE]

all_callback(reg, d, h) ==
    IF IsWindowVisible(reg, h)
    THEN LET title == get_title_from_hwnd(reg, h)
         IN  IF title # <<>>
             THEN [windows |-> DictSet(d, h, title), ret |-> TRUE]
             ELSE [windows |-> d, ret |-> TRUE]
    ELSE [windows |-> d, ret |-> TRUE]

user_callback_general(reg, d, h, checkVisible, checkTool, checkOwner, skipRet) ==
    IF checkVisible /\ ~IsWindowVisible(reg, h) THEN [windows |-> d, ret |-> skipRet]
    ELSE IF checkTool /\ BitAnd(GetWindowLongPtrW(reg, h), WS_EX_TOOLWINDOW) # 0
         THEN [windows |-> d, ret |-> skipRet]
    ELSE IF checkOwner /\ GetWindow(reg, h) # NULL THEN [windows |-> d, ret |-> skipRet]
    ELSE LET title == get_title_from_hwnd(reg, h)
         IN  IF title # <<>>
             THEN [windows |-> DictSet(d, h, title), ret |-> TRUE]
             ELSE [windows |-> d, ret |-> TRUE]

user_callback_invisible(reg, d, h) == user_callback_general(reg, d, h, FALSE, TRUE, TRUE, TRUE)
user_callback_tool(reg, d, h) == user_callback_general(reg, d, h, TRUE, FALSE, TRUE, TRUE)
user_callback_owned(reg, d, h) == user_callback_general(reg, d, h, TRUE, TRUE, FALSE, TRUE)
user_callback_abort(reg, d, h) == user_callback_general(reg, d, h, TRUE, TRUE, TRUE, FALSE)

user_callback(reg, d, h) ==
    IF ~IsWindowVisible(reg, h) THEN [windows |-> d, ret |-> TRUE]
    ELSE LET style == GetWindowLongPtrW(reg, h)
         IN  IF BitAnd(style, WS_EX_TOOLWINDOW) # 0 THEN [windows |-> d, ret |-> TRUE]
             ELSE IF GetWindow(reg, h) # NULL THEN [windows |-> d, ret |-> TRUE]
             ELSE LET title == get_title_from_hwnd(reg, h)
                  IN  IF title # <<>>
                      THEN [windows |-> DictSet(d, h, title), ret |-> TRUE]
                      ELSE [windows |-> d, ret |-> TRUE]

enum_windows_proc_callback(k, reg, d, h) ==
    IF k = "all" THEN all_callback(reg, d, h) ELSE user_callback(reg, d, h)

\* EnumWindows: call the callback on each window until it returns FALSE.
RECURSIVE EnumWindows(_, _, _, _)
EnumWindows(k, reg, rest, d) ==
    IF rest = <<>> THEN d
    ELSE LET r == enum_windows_proc_callback(k, reg, d, Head(rest))
         IN  IF r.ret THEN EnumWindows(k, reg, Tail(rest), r.windows) ELSE r.windows

get_all_windows(reg) == EnumWindows("all", reg, TopLevelWindows(reg), EmptyDict)

get_all_user_windows(reg) == EnumWindows("user", reg, TopLevelWindows(reg), EmptyDict)

---------------------------------------------------------------------------
(* Spec: the enumerations applied to every registry *)

RaceIdle ==
    /\ kind = "none" /\ pc = "idle" /\ todo = <<>> /\ hwnd = 0 /\ length = 0
    /\ buff = <<>> /\ windows = EmptyDict /\ held = {} /\ gone = {}
    /\ untouched = {} /\ osSteps = 0

ProcIdle ==
    /\ procIn = [hwnd |-> 0, openOk |-> FALSE, queryOk |-> FALSE, path |-> <<>>]
    /\ procName = <<>> /\ opened = 0 /\ closed = 0 /\ closedNull = 0 /\ calls = 0

EnumIdle == returned = {} /\ allWindows = EmptyDict /\ userWindows = EmptyDict

Init == win \in Registries /\ EnumIdle /\ RaceIdle /\ ProcIdle

GetAllWindows ==
    /\ "all" \notin returned
    /\ allWindows' = get_all_windows(win)
    /\ returned' = returned \cup {"all"}
    /\ UNCHANGED <<win, userWindows, raceVars, procVars>>

GetAllUserWindows ==
    /\ "user" \notin returned
    /\ userWindows' = get_all_user_windows(win)
    /\ returned' = returned \cup {"user"}
    /\ UNCHANGED <<win, allWindows, raceVars, procVars>>

Next == GetAllWindows \/ GetAllUserWindows

Spec == Init /\ [][Next]_vars

---------------------------------------------------------------------------
(* Properties of the enumerations on a fixed registry (Spec) *)

Visible(h) == win[h].exists /\ win[h].visible
Titled(h) == win[h].title # <<>>
HasToolBit(h) == win[h].exists /\ (win[h].exstyle \div WS_EX_TOOLWINDOW) % 2 = 1
Owned(h) == win[h].exists /\ win[h].owner # NULL
BothReturned == returned = {"all", "user"}

\* C1: every identifier in the result of get_all_user_windows is also in the
\* result of get_all_windows on the same registry, with the same title.
C1_UserSubsetOfAll ==
    BothReturned =>
        \A h \in DOMAIN userWindows :
            h \in DOMAIN allWindows /\ allWindows[h] = userWindows[h]

C1_Witness ==
    /\ BothReturned
    /\ userWindows # EmptyDict
    /\ \E h \in DOMAIN allWindows : h \notin DOMAIN userWindows

\* C2: get_all_windows returns exactly the windows that are visible and have
\* a non-empty title, each once and mapped to its own title.
C2_AllWindowsExact ==
    "all" \in returned =>
        /\ DOMAIN allWindows = {h \in Hwnds : Visible(h) /\ Titled(h)}
        /\ \A h \in DOMAIN allWindows : allWindows[h] = win[h].title

C2_Witness ==
    /\ "all" \in returned
    /\ \E h \in DOMAIN allWindows : Len(allWindows[h]) = MaxTitleLen
    /\ \E h \in Hwnds : win[h].exists /\ h \notin DOMAIN allWindows

\* C3: get_all_user_windows returns exactly the windows that are visible,
\* without the tool-window bit, without an owner and titled, each mapped to
\* its own title; a rejected window does not stop the walk.
C3_UserWindowsExact ==
    "user" \in returned =>
        /\ DOMAIN userWindows =
               {h \in Hwnds : Visible(h) /\ ~HasToolBit(h) /\ ~Owned(h) /\ Titled(h)}
        /\ \A h \in DOMAIN userWindows : userWindows[h] = win[h].title

C3_Witness ==
    /\ "user" \in returned
    /\ \E h1, h2 \in Hwnds :
           /\ h1 < h2
           /\ win[h1].exists /\ h1 \notin DOMAIN userWindows
           /\ h2 \in DOMAIN userWindows

\* C4: a window whose title text is empty is in neither result, whatever its
\* visibility, style bits and owner.
C4_UntitledAbsent ==
    \A h \in Hwnds :
        win[h].title = <<>> =>
            /\ "all" \in returned => h \notin DOMAIN allWindows
            /\ "user" \in returned => h \notin DOMAIN userWindows

C4_Witness ==
    /\ BothReturned
    /\ \E h \in Hwnds :
           /\ Visible(h) /\ ~HasToolBit(h) /\ ~Owned(h) /\ win[h].title = <<>>
           /\ h \notin DOMAIN allWindows /\ h \notin DOMAIN userWindows

\* C5: a window with the tool-window bit set is absent from the result of
\* get_all_user_windows and present in the result of get_all_windows whenever
\* it is visible and titled.
C5_ToolWindow ==
    \A h \in Hwnds :
        HasToolBit(h) =>
            /\ "user" \in returned => h \notin DOMAIN userWindows
            /\ ("all" \in returned /\ Visible(h) /\ Titled(h)) => h \in DOMAIN allWindows

C5_Witness ==
    /\ BothReturned
    /\ \E h \in Hwnds :
           /\ HasToolBit(h) /\ ~Owned(h) /\ Visible(h) /\ Titled(h)
           /\ h \in DOMAIN allWindows /\ h \notin DOMAIN userWindows

\* C6: a window with a non-null owner is absent from the result of
\* get_all_user_windows and still in the result of get_all_windows when it is
\* visible and titled.
C6_OwnedWindow ==
    \A h \in Hwnds :
        Owned(h) =>
            /\ "user" \in returned => h \notin DOMAIN userWindows
            /\ ("all" \in returned /\ Visible(h) /\ Titled(h)) => h \in DOMAIN allWindows

\* window A titled "No", window C titled "Di" owned by A
C6_Witness ==
    /\ BothReturned
    /\ \E a, c \in Hwnds :
           /\ Visible(a) /\ ~Owned(a) /\ ~HasToolBit(a) /\ win[a].title = <<"N", "o">>
           /\ Visible(c) /\ ~HasToolBit(c) /\ win[c].owner = a /\ win[c].title = <<"D", "i">>
           /\ allWindows = (a :> <<"N", "o">>) @@ (c :> <<"D", "i">>)
           /\ userWindows = (a :> <<"N", "o">>)

---------------------------------------------------------------------------
(* SpecRace: the calls run one native call at a time; the OS acts in between *)

\* Windows as the race starts: present ones are visible, unowned, not tool
\* windows and carry a title of full length; the OS shortens, empties or
\* replaces titles as the call runs.
RaceRecords ==
    {NoWindow} \cup
    [exists : {TRUE}, visible : {TRUE}, exstyle : {WS_EX_TOPMOST}, owner : {NULL},
     title : {Take(n, MaxTitleLen) : n \in Names}]

InitRace == win \in [Hwnds -> RaceRecords] /\ EnumIdle /\ RaceIdle /\ ProcIdle

Running == pc \notin {"idle", "done"}

\* The window the running code is reading.  A change to a window the walk
\* has passed cannot reach the call, so the OS acts on the current window,
\* before and between the native calls made on it.
BeingRead == IF pc = "EnumWindows" THEN {} ELSE {hwnd}

\* get_all_windows() is called: windows = {} and EnumWindows starts.
CallGetAllWindows ==
    /\ pc = "idle"
    /\ kind' = "all" /\ pc' = "EnumWindows"
    /\ todo' = TopLevelWindows(win) /\ windows' = EmptyDict /\ untouched' = Hwnds
    /\ UNCHANGED <<win, enumVars, hwnd, length, buff, held, gone, osSteps, procVars>>

\* get_all_user_windows() is called.
CallGetAllUserWindows ==
    /\ pc = "idle"
    /\ kind' = "user" /\ pc' = "EnumWindows"
    /\ todo' = TopLevelWindows(win) /\ windows' = EmptyDict /\ untouched' = Hwnds
    /\ UNCHANGED <<win, enumVars, hwnd, length, buff, held, gone, osSteps, procVars>>

\* get_title_from_hwnd(h) is called directly, on any identifier.
CallGetTitle ==
    /\ pc = "idle"
    /\ \E h \in Hwnds : hwnd' = h
    /\ kind' = "title" /\ pc' = "GetWindowTextLengthW" /\ untouched' = Hwnds
    /\ UNCHANGED <<win, enumVars, todo, length, buff, windows, held, gone, osSteps, procVars>>

\* EnumWindows hands the next window to the callback, or returns.
EnumNext ==
    /\ pc = "EnumWindows"
    /\ IF todo = <<>>
       THEN pc' = "done" /\ UNCHANGED <<todo, hwnd>>
       ELSE pc' = "IsWindowVisible" /\ hwnd' = Head(todo) /\ todo' = Tail(todo)
    /\ held' = {}
    /\ UNCHANGED <<win, enumVars, kind, length, buff, windows, gone, untouched, osSteps, procVars>>

\* the callback's IsWindowVisible(hwnd) test
CallbackIsWindowVisible ==
    /\ pc = "IsWindowVisible"
    /\ pc' = IF ~IsWindowVisible(win, hwnd) THEN "EnumWindows"
             ELSE IF kind = "all" THEN "GetWindowTextLengthW"
             ELSE "GetWindowLongPtrW"
    /\ UNCHANGED <<win, enumVars, kind, todo, hwnd, length, buff, windows, held, gone,
                   untouched, osSteps, procVars>>

\* style = GetWindowLongPtrW(hwnd, GWL_EXSTYLE); if style & WS_EX_TOOLWINDOW: return True
CallbackGetWindowLongPtrW ==
    /\ pc = "GetWindowLongPtrW"
    /\ pc' = IF BitAnd(GetWindowLongPtrW(win, hwnd), WS_EX_TOOLWINDOW) # 0
             THEN "EnumWindows" ELSE "GetWindow"
    /\ UNCHANGED <<win, enumVars, kind, todo, hwnd, length, buff, windows, held, gone,
                   untouched, osSteps, procVars>>

\* if GetWindow(hwnd, GW_OWNER): return True
CallbackGetWindow ==
    /\ pc = "GetWindow"
    /\ pc' = IF GetWindow(win, hwnd) # NULL THEN "EnumWindows" ELSE "GetWindowTextLengthW"
    /\ UNCHANGED <<win, enumVars, kind, todo, hwnd, length, buff, windows, held, gone,
                   untouched, osSteps, procVars>>

\* length = GetWindowTextLengthW(hwnd); buff = create_unicode_buffer(length + 1)
TitleGetWindowTextLengthW ==
    /\ pc = "GetWindowTextLengthW"
    /\ length' = GetWindowTextLengthW(win, hwnd)
    /\ buff' = <<>>
    /\ held' = IF win[hwnd].exists THEN {win[hwnd].title} ELSE {}
    /\ gone' = IF win[hwnd].exists THEN gone ELSE gone \cup {hwnd}
    /\ pc' = "GetWindowTextW"
    /\ UNCHANGED <<win, enumVars, kind, todo, hwnd, windows, untouched, osSteps, procVars>>

\* GetWindowTextW(hwnd, buff, length + 1); return buff.value
TitleGetWindowTextW ==
    /\ pc = "GetWindowTextW"
    /\ buff' = GetWindowTextW(win, hwnd, length + 1)
    /\ held' = IF win[hwnd].exists THEN held \cup {win[hwnd].title} ELSE held
    /\ gone' = IF win[hwnd].exists THEN gone ELSE gone \cup {hwnd}
    /\ pc' = "return"
    /\ UNCHANGED <<win, enumVars, kind, todo, hwnd, length, windows, untouched, osSteps, procVars>>

\* A callback that stores the title without testing it.
CallbackStoreUntested ==
    /\ pc = "return"
    /\ IF kind = "title"
       THEN pc' = "done" /\ UNCHANGED windows
       ELSE pc' = "EnumWindows" /\ windows' = DictSet(windows, hwnd, buff)
    /\ UNCHANGED <<win, enumVars, kind, todo, hwnd, length, buff, held, gone,
                   untouched, osSteps, procVars>>

\* get_title_from_hwnd returns; in a callback: if title: windows[hwnd] = title
CallbackStore ==
    /\ pc = "return"
    /\ IF kind = "title"
       THEN pc' = "done" /\ UNCHANGED windows
       ELSE /\ pc' = "EnumWindows"
            /\ windows' = IF buff # <<>> THEN DictSet(windows, hwnd, buff) ELSE windows
    /\ UNCHANGED <<win, enumVars, kind, todo, hwnd, length, buff, held, gone,
                   untouched, osSteps, procVars>>

\* The OS destroys a window while a call runs.
OsDestroyWindow ==
    /\ Running /\ osSteps < MaxOsSteps
    /\ \E h \in BeingRead :
           /\ win[h].exists
           /\ win' = [win EXCEPT ![h] = NoWindow]
           /\ untouched' = untouched \ {h}
           /\ gone' = IF pc = "GetWindowTextW" THEN gone \cup {h} ELSE gone
    /\ osSteps' = osSteps + 1
    /\ UNCHANGED <<enumVars, kind, pc, todo, hwnd, length, buff, windows, held, procVars>>

\* The OS (the window's owner thread) changes a window's title while a call runs.
OsSetWindowText ==
    /\ Running /\ osSteps < MaxOsSteps
    /\ \E h \in BeingRead, t \in Titles :
           /\ win[h].exists /\ win[h].title # t
           /\ win' = [win EXCEPT ![h].title = t]
           /\ untouched' = untouched \ {h}
           /\ held' = IF h = hwnd /\ pc = "GetWindowTextW" THEN held \cup {t} ELSE held
    /\ osSteps' = osSteps + 1
    /\ UNCHANGED <<enumVars, kind, pc, todo, hwnd, length, buff, windows, gone, procVars>>

NextRace ==
    \/ CallGetAllWindows
    \/ CallGetAllUserWindows
    \/ CallGetTitle
    \/ EnumNext
    \/ CallbackIsWindowVisible
    \/ CallbackGetWindowLongPtrW
    \/ CallbackGetWindow
    \/ TitleGetWindowTextLengthW
    \/ TitleGetWindowTextW
    \/ CallbackStore
    \/ OsDestroyWindow
    \/ OsSetWindowText

SpecRace == InitRace /\ [][NextRace]_vars

---------------------------------------------------------------------------
(* Properties of the title lookup under concurrent OS changes (SpecRace) *)

Enumerating == kind \in {"all", "user"}

\* C9: get_title_from_hwnd on an identifier whose window does not exist (never
\* existed, or destroyed before or between its two native calls) returns
\* empty text; in an enumeration that window is left out of the result and the
\* walk goes on: every window the OS left alone that is visible and titled is
\* in the result with its title.
C9_MissingWindowSkipped ==
    /\ (pc = "return" /\ hwnd \in gone) => buff = <<>>
    /\ Enumerating => \A h \in gone : h \notin DOMAIN windows
    /\ (Enumerating /\ pc = "done") =>
           \A h \in untouched :
               (Visible(h) /\ Titled(h)) => (h \in DOMAIN windows /\ windows[h] = win[h].title)

\* a window that passed the visibility check is gone at the title fetch, and a
\* later window is returned
C9_Witness ==
    /\ kind = "all" /\ pc = "done"
    /\ \E h1 \in gone, h2 \in DOMAIN windows : h1 < h2 /\ h2 \in untouched

\* C10: the text get_title_from_hwnd returns is a complete title the window
\* held at some moment of the call, or empty text if the window vanished.
C10_CompleteTitle ==
    pc = "return" => (buff \in held \/ (hwnd \in gone /\ buff = <<>>))

---------------------------------------------------------------------------
(* SpecProc: get_process_name_from_hwnd *)

PathChars == {"\\", "a"}

\* Image paths QueryFullProcessImageNameW may write.
Paths == UNION {[1..n -> PathChars] : n \in 0..MaxPathLen}

\* The process a window belongs to (process ids are non-zero multiples of 4).
PidOf(h) == 4 * h

\* GetWindowThreadProcessId(hwnd, byref(pid)): pid keeps c_ulong()'s 0 for a
\* window that does not exist.
GetWindowThreadProcessId(reg, h) == IF reg[h].exists THEN PidOf(h) ELSE 0

\* OpenProcess: a handle (named by the pid here), or NULL when the OS refuses
\* or the pid is 0.
OpenProcess(pid, openOk) == IF pid # 0 /\ openOk THEN pid ELSE NULL

\* str.split(sep): the components between the separators
RECURSIVE Split(_, _, _)
Split(s, sep, cur) ==
    IF s = <<>> THEN <<cur>>
    ELSE IF Head(s) = sep THEN <<cur>> \o Split(Tail(s), sep, <<>>)
    ELSE Split(Tail(s), sep, Append(cur, Head(s)))

\* The function's return value and the CloseHandle calls it makes.
get_process_name_from_hwnd_leak(reg, h, openOk, queryOk, path) ==
    LET pid == GetWindowThreadProcessId(reg, h)
        process_handle == OpenProcess(pid, openOk)
    IN  IF process_handle = NULL
        THEN [name |-> <<>>, handle |-> NULL, close |-> <<>>]
        ELSE IF queryOk
             THEN LET parts == Split(path, "\\", <<>>)
                  IN  [name |-> parts[Len(parts)], handle |-> process_handle,
                       close |-> <<process_handle>>]
             ELSE [name |-> <<>>, handle |-> process_handle, close |-> <<>>]

get_process_name_from_hwnd_path(reg, h, openOk, queryOk, path) ==
    LET pid == GetWindowThreadProcessId(reg, h)
        process_handle == OpenProcess(pid, openOk)
    IN  IF process_handle = NULL
        THEN [name |-> <<>>, handle |-> NULL, close |-> <<>>]
        ELSE [name |-> IF queryOk THEN path ELSE <<>>,
              handle |-> process_handle, close |-> <<process_handle>>]

get_process_name_from_hwnd(reg, h, openOk, queryOk, path) ==
    LET pid == GetWindowThreadProcessId(reg, h)
        process_handle == OpenProcess(pid, openOk)
    IN  IF process_handle = NULL
        THEN [name |-> <<>>, handle |-> NULL, close |-> <<>>]
        ELSE LET process_name ==
                     IF queryOk
                     THEN LET parts == Split(path, "\\", <<>>) IN parts[Len(parts)]
                     ELSE <<>>
             IN  [name |-> process_name, handle |-> process_handle,
                  close |-> <<process_handle>>]

Count(q, P(_)) == Cardinality({i \in DOMAIN q : P(q[i])})

\* Each identifier names a window or none; the lookup reads nothing else of it.
ProcRecords ==
    {NoWindow,
     [exists |-> TRUE, visible |-> TRUE, exstyle |-> WS_EX_TOPMOST, owner |-> NULL,
      title |-> <<"N">>]}

InitProc == win \in [Hwnds -> ProcRecords] /\ EnumIdle /\ RaceIdle /\ ProcIdle

GetProcessName ==
    /\ calls < MaxCalls
    \* the query is made on an open handle only, and writes a path only when
    \* it succeeds
    /\ \E h \in Hwnds, openOk \in BOOLEAN :
       \E queryOk \in (IF openOk THEN BOOLEAN ELSE {FALSE}) :
       \E path \in (IF queryOk THEN Paths ELSE {<<>>}) :
           LET r == get_process_name_from_hwnd(win, h, openOk, queryOk, path)
           IN  /\ procIn' = [hwnd |-> h, openOk |-> openOk, queryOk |-> queryOk, path |-> path]
               /\ procName' = r.name
               /\ opened' = opened + (IF r.handle # NULL THEN 1 ELSE 0)
               /\ closed' = closed + Count(r.close, LAMBDA x : x # NULL)
               /\ closedNull' = closedNull + Count(r.close, LAMBDA x : x = NULL)
    /\ calls' = calls + 1
    /\ UNCHANGED <<win, enumVars, raceVars>>

NextProc == GetProcessName

SpecProc == InitProc /\ [][NextProc]_vars

\* C7: the process handle is released exactly once whenever it was obtained,
\* whether the image-name query succeeds or fails, and no release is made when
\* it was not obtained: after any sequence of calls the CloseHandle calls
\* equal the successful OpenProcess calls and none was on a null handle.
C7_HandleReleased == closed = opened /\ closedNull = 0

C7_Witness ==
    /\ calls = MaxCalls /\ opened = MaxCalls - 1 /\ closed = opened
    /\ win[procIn.hwnd].exists /\ procIn.openOk /\ ~procIn.queryOk

HandleObtained == win[procIn.hwnd].exists /\ procIn.openOk

\* C8: get_process_name_from_hwnd returns empty text when the identifier is
\* invalid, the process cannot be opened or the query fails, and otherwise the
\* part of the image path after its last backslash, which holds no backslash.
C8_ProcessName ==
    calls > 0 =>
        IF ~HandleObtained \/ ~procIn.queryOk
        THEN procName = <<>>
        ELSE LET n == Len(procIn.path)
                 k == Len(procName)
             IN  /\ k <= n
                 /\ procName = SubSeq(procIn.path, n - k + 1, n)
                 /\ \A i \in 1..k : procName[i] # "\\"
                 /\ (k < n => procIn.path[n - k] = "\\")

C8_Witness ==
    /\ calls > 0 /\ HandleObtained /\ procIn.queryOk
    /\ Len(procIn.path) = MaxPathLen /\ procIn.path[1] = "\\"
    /\ procName # <<>> /\ Len(procName) < MaxPathLen - 1

=============================================================================
